---- MODULE Spec2Model ----
(***************************************************************************)
(* Model of the application controller of cosmic-tasks (src/src/app.rs):   *)
(* the reducer App::update, the navigation hooks on_nav_select/on_escape,  *)
(* the dialog queue, the navigation model and the asynchronous backend     *)
(* commands whose results re-enter the reducer as Messages.                *)
(*                                                                         *)
(* Every handler is a pure operator from the App value (and the message's  *)
(* payload) to the record [app |-> App after, cmds |-> commands returned], *)
(* so that a handler that calls self.update again is the composition of    *)
(* the operators, and Command::batch is the concatenation of the batches.  *)
(***************************************************************************)
EXTENDS Integers, Sequences, FiniteSets, Bags, TLC

VARIABLES
    nav_model,      \* App.nav_model: segmented_button::SingleSelectModel
    selected_list,  \* App.selected_list: Option<List>
    dialog_pages,   \* App.dialog_pages: VecDeque<DialogPage>
    context_page,   \* App.context_page
    show_context,   \* App.core.window.show_context
    context_title,  \* the title set by set_context_title
    details,        \* App.details: the task shown and the priority selector
    content_list,   \* App.content: the list Content was last told about
    config,         \* App.config and whether App.config_handler is Some
    modifiers,      \* App.modifiers
    next_id,        \* the next fresh List id (the ids are UUIDs in the program)
    panicked,       \* update has panicked: the process is gone
    pending,        \* Command::perform futures that have not resolved yet
    commands,       \* the batch returned by the last call of update
    last,           \* the Message (or hook) handled last
    pre             \* the App value before the message handled last

vars == <<nav_model, selected_list, dialog_pages, context_page, show_context,
          context_title, details, content_list, config, modifiers, next_id,
          panicked, pending, commands, last, pre>>

----------------------------------------------------------------------------
(* Bounds of the model *)

\* lists ever created or loaded in a run of Spec (ids 1..MaxLists)
MaxLists == 2
\* lists ever created or loaded in a run of SpecNav
MaxNavLists == 3
\* dialogs queued at once in a run of Spec
MaxDialogs == 1
\* dialogs queued at once in a run of SpecDialog, and the lists of such a run
MaxQueue == 2
MaxQueueLists == 1
\* lists created in a run of SpecLists
MaxRenameLists == 2
\* lists loaded and dialogs queued at once in a run of SpecKeys
MaxKeyLists == 1
MaxKeyDialogs == 1
\* lists loaded and dialogs queued at once in a run of SpecDetails
MaxDetailsLists == 1
MaxDetailsDialogs == 1
\* lists ever created or loaded in a run of SpecLoop
MaxLoopLists == 1
\* the longest chain of nested calls of update that is followed
MaxChain == 4
\* backend commands in flight at once whose result is a Message of the
\* controller (fetch_lists, create_list, update_list)
MaxPending == 1
\* other backend commands in flight at once (fetch_tasks and the writes
\* whose result is dropped)
MaxQuiet == 1
\* the highest task priority that Content hands over
MaxPriority == 1

\* names typed into the dialogs and names of the lists the backend stores
Names == {"", "a"}

----------------------------------------------------------------------------
(* Option<T>: None is the empty sequence, Some(x) the one-element sequence *)

None == <<>>
Some(x) == <<x>>
IsSome(o) == o # <<>>
Unwrap(o) == o[1]

\* done_core::models::list::List, reduced to the fields the controller reads
List(id, name) == [id |-> id, name |-> name]

\* ContextPage
ContextPages == {"About", "TaskDetails", "Settings"}

\* DialogPage
NewItem(name) == [kind |-> "NewItem", name |-> name]
RenameItem(from, to) == [kind |-> "RenameItem", from |-> from, to |-> to]
DeleteItem(name) == [kind |-> "DeleteItem", name |-> name]

\* the tasks Content and Details hand to the controller
Tasks == {[id |-> 1, priority |-> p] : p \in 0..MaxPriority}

----------------------------------------------------------------------------
(* segmented_button::SingleSelectModel as the controller uses it.  An      *)
(* Entity is a positive number, 0 is Entity::default() (no entity).        *)

NullEntity == 0

EmptyModel == [order |-> <<>>, text |-> <<>>, data |-> <<>>,
               active |-> NullEntity, next |-> 1]

\* the entities of the model, in display order: nav_model.iter()
Entities(m) == {m.order[i] : i \in 1..Len(m.order)}

\* nav_model.data::<List>(entity)
Data(m, e) == IF e \in Entities(m) THEN Some(m.data[e]) ELSE None

\* nav_model.insert().text(..).icon(..).data(..): a fresh entity at the end
Insert(m, text, list) ==
    [m EXCEPT !.order = Append(@, m.next),
              !.text = (m.next :> text) @@ @,
              !.data = (m.next :> list) @@ @,
              !.next = @ + 1]

\* nav_model.activate(entity): ignored for an entity the model does not hold
Activate(m, e) == IF e \in Entities(m) THEN [m EXCEPT !.active = e] ELSE m

\* nav_model.remove(entity): the entity leaves the order and the storages,
\* and is deactivated if it was the active one
Remove(m, e) ==
    [m EXCEPT !.order = SelectSeq(@, LAMBDA x : x # e),
              !.text = [x \in (DOMAIN @) \ {e} |-> @[x]],
              !.data = [x \in (DOMAIN @) \ {e} |-> @[x]],
              !.active = IF @ = e THEN NullEntity ELSE @]

\* nav_model.data_set(entity, list): ignored for an entity the model does not hold
DataSet(m, e, list) ==
    IF e \in Entities(m) THEN [m EXCEPT !.data[e] = list] ELSE m

\* nav_model.iter().next() and nav_model.iter().last()
FirstEntity(m) == IF m.order = <<>> THEN None ELSE Some(m.order[1])
LastEntity(m) == IF m.order = <<>> THEN None ELSE Some(m.order[Len(m.order)])

\* nav_model.iter().find(|entity| data(entity).id == id)
FindById(m, id) ==
    LET hits == {i \in 1..Len(m.order) : m.data[m.order[i]].id = id}
    IN  IF hits = {} THEN None
        ELSE Some(m.order[CHOOSE i \in hits : \A j \in hits : i <= j])

----------------------------------------------------------------------------
(* The App value and the result of a handler *)

App == [nav_model |-> nav_model, selected_list |-> selected_list,
        dialog_pages |-> dialog_pages, context_page |-> context_page,
        show_context |-> show_context, context_title |-> context_title,
        details |-> details, content_list |-> content_list,
        config |-> config, modifiers |-> modifiers, next_id |-> next_id]

\* what update returns: the App value after it and the batch of commands
R(app, cmds) == [app |-> app, cmds |-> cmds]

\* update does not return: it panics in the state app
Panic(app) == [app |-> app, cmds |-> <<>>, panic |-> TRUE]
Panicked(r) == "panic" \in DOMAIN r

\* Command::perform of a backend call, and the commands of the toolkit
FetchLists == [op |-> "fetch_lists"]
FetchTasks(list_id) == [op |-> "fetch_tasks", list_id |-> list_id]
CreateList(list) == [op |-> "create_list", list |-> list]
UpdateListCmd(list) == [op |-> "update_list", list |-> list]
DeleteListCmd(id) == [op |-> "delete_list", id |-> id]
UpdateTask(task) == [op |-> "update_task", task |-> task]
DeleteTask(list_id, id) == [op |-> "delete_task", list_id |-> list_id, id |-> id]
CreateTask(task) == [op |-> "create_task", task |-> task]
FocusTextInput == [op |-> "focus"]
SetTheme(theme) == [op |-> "set_theme", theme |-> theme]
WindowCloseCmd == [op |-> "window_close"]

\* the commands that are futures of a backend call (Command::perform)
BackendOps == {"fetch_lists", "fetch_tasks", "create_list", "update_list",
               "delete_list", "update_task", "delete_task", "create_task"}

----------------------------------------------------------------------------
(* Content, the sub-controller of the task list.  A message to Content is  *)
(* either List(Option<List>), the "list changed" message, or a message of  *)
(* Content's own view, given here by the intents Content answers it with.  *)

ListMsg(list_opt) == [kind |-> "List", list |-> list_opt]
ViewMsg(intents) == [kind |-> "View", intents |-> intents]

\* content::Command
GetTasks(list_id) == [cmd |-> "GetTasks", list_id |-> list_id]
DisplayTask(task) == [cmd |-> "DisplayTask", task |-> task]
UpdateTaskIntent(task) == [cmd |-> "UpdateTask", task |-> task]
DeleteIntent(id) == [cmd |-> "Delete", id |-> id]
CreateTaskIntent(task) == [cmd |-> "CreateTask", task |-> task]

\* Content::update: [content_list, intents].  A list-changed message for
\* Some(list) is answered with one GetTasks(list.id), one for None with
\* nothing; Content remembers the list.
ContentUpdate(list_now, message) ==
    IF message.kind = "List"
    THEN [list |-> message.list,
          intents |-> IF IsSome(message.list)
                      THEN <<GetTasks(Unwrap(message.list).id)>>
                      ELSE <<>>]
    ELSE [list |-> list_now, intents |-> message.intents]

\* the number of entries of Details' priority selector
PriorityItems == 3

\* details.priority_model.entity_at(pos) and activate: the selector moves
\* to pos if it has such an entry
ActivatePriority(d, pos) ==
    IF pos < PriorityItems THEN [d EXCEPT !.priority = Some(pos)] ELSE d

\* ContextPage::title
Title(page) == CASE page = "About" -> ""
                 [] page = "Settings" -> "Settings"
                 [] page = "TaskDetails" -> "Details"

----------------------------------------------------------------------------
(* App::update, one operator per arm of the match *)

\* ToggleContextPage that shows the panel whatever page was selected
UpdateToggleContextPage_AlwaysShow(app, page) ==
    R([app EXCEPT !.context_page = page, !.show_context = TRUE,
                  !.context_title = Title(page)],
      <<>>)

\* Message::ToggleContextPage(context_page)
UpdateToggleContextPage(app, page) ==
    R([app EXCEPT !.context_page = page,
                  !.show_context = IF app.context_page = page THEN ~@ ELSE TRUE,
                  !.context_title = Title(page)],
      <<>>)

\* one content::Command of the loop of Message::ContentMessage
ContentCommand(app, c) ==
    CASE c.cmd = "GetTasks" -> R(app, <<FetchTasks(c.list_id)>>)
      [] c.cmd = "DisplayTask" ->
            UpdateToggleContextPage(
                [app EXCEPT !.details =
                    [ActivatePriority(@, c.task.priority) EXCEPT !.task = Some(c.task)]],
                "TaskDetails")
      [] c.cmd = "UpdateTask" ->
            R([app EXCEPT !.details.task = Some(c.task)], <<UpdateTask(c.task)>>)
      [] c.cmd = "Delete" ->
            IF IsSome(app.selected_list)
            THEN R(app, <<DeleteTask(Unwrap(app.selected_list).id, c.id)>>)
            ELSE R(app, <<>>)
      [] c.cmd = "CreateTask" -> R(app, <<CreateTask(c.task)>>)

\* the loop over content_commands, the commands pushed in order
RECURSIVE ContentCommands(_, _)
ContentCommands(app, intents) ==
    IF intents = <<>> THEN R(app, <<>>)
    ELSE LET r1 == ContentCommand(app, Head(intents))
             r2 == ContentCommands(r1.app, Tail(intents))
         IN  R(r2.app, r1.cmds \o r2.cmds)

\* Message::ContentMessage(message)
UpdateContentMessage(app, message) ==
    LET c == ContentUpdate(app.content_list, message)
    IN  ContentCommands([app EXCEPT !.content_list = c.list], c.intents)

\* on_nav_select that activates the entry and forwards the list, but leaves
\* selected_list as it was
on_nav_select_KeepSelected(app, entity) ==
    LET m == Activate(app.nav_model, entity)
        location_opt == Data(m, entity)
    IN  IF IsSome(location_opt)
        THEN UpdateContentMessage([app EXCEPT !.nav_model = m], ListMsg(location_opt))
        ELSE R([app EXCEPT !.nav_model = m], <<>>)

\* App::on_nav_select(entity)
on_nav_select(app, entity) ==
    LET m == Activate(app.nav_model, entity)
        location_opt == Data(m, entity)
    IN  IF IsSome(location_opt)
        THEN UpdateContentMessage(
                 [app EXCEPT !.nav_model = m, !.selected_list = location_opt],
                 ListMsg(location_opt))
        ELSE R([app EXCEPT !.nav_model = m], <<>>)

\* App::create_nav_item(list)
create_nav_item(m, list) == Insert(m, list.name, list)

RECURSIVE create_nav_items(_, _)
create_nav_items(m, lists) ==
    IF lists = <<>> THEN m
    ELSE create_nav_items(create_nav_item(m, Head(lists)), Tail(lists))

\* PopulateLists that selects the last entry of the model
UpdatePopulateLists_Last(app, lists) ==
    LET m == create_nav_items(app.nav_model, lists)
        entity == LastEntity(m)
    IN  IF ~IsSome(entity) THEN R([app EXCEPT !.nav_model = m], <<>>)
        ELSE on_nav_select([app EXCEPT !.nav_model = Activate(m, Unwrap(entity))],
                           Unwrap(entity))

\* Message::PopulateLists(lists)
UpdatePopulateLists(app, lists) ==
    LET m == create_nav_items(app.nav_model, lists)
        first == FirstEntity(m)
    IN  IF ~IsSome(first) THEN R([app EXCEPT !.nav_model = m], <<>>)
        ELSE on_nav_select([app EXCEPT !.nav_model = Activate(m, Unwrap(first))],
                           Unwrap(first))

\* AddList that inserts the entry but selects the first entry of the model
UpdateAddList_First(app, list) ==
    LET m == create_nav_item(app.nav_model, list)
        app1 == [app EXCEPT !.selected_list = Some(list), !.nav_model = m]
        entity == FirstEntity(m)
    IN  IF ~IsSome(entity) THEN R(app1, <<>>)
        ELSE on_nav_select(app1, Unwrap(entity))

\* Message::AddList(list)
UpdateAddList(app, list) ==
    LET m == create_nav_item(app.nav_model, list)
        app1 == [app EXCEPT !.selected_list = Some(list), !.nav_model = m]
        entity == LastEntity(m)
    IN  IF ~IsSome(entity) THEN R(app1, <<>>)
        ELSE on_nav_select(app1, Unwrap(entity))

\* DeleteList that removes the entry but leaves selected_list set
UpdateDeleteList_KeepSelected(app) ==
    IF IsSome(app.selected_list)
    THEN LET list == Unwrap(app.selected_list)
             entity == FindById(app.nav_model, list.id)
             m == IF IsSome(entity) THEN Remove(app.nav_model, Unwrap(entity))
                  ELSE app.nav_model
             r == UpdateContentMessage([app EXCEPT !.nav_model = m], ListMsg(None))
         IN  R(r.app, r.cmds \o <<DeleteListCmd(list.id)>>)
    ELSE R(app, <<>>)

\* DeleteList that returns early when no entry has the id of the list
UpdateDeleteList_FoundOnly(app) ==
    IF IsSome(app.selected_list)
    THEN LET list == Unwrap(app.selected_list)
             entity == FindById(app.nav_model, list.id)
         IN  IF IsSome(entity)
             THEN LET r == UpdateContentMessage(
                               [app EXCEPT !.nav_model = Remove(@, Unwrap(entity))],
                               ListMsg(None))
                  IN  R([r.app EXCEPT !.selected_list = None],
                        r.cmds \o <<DeleteListCmd(list.id)>>)
             ELSE R(app, <<>>)
    ELSE R(app, <<>>)

\* DeleteList that removes the first entry of the model, whatever its list
UpdateDeleteList_First(app) ==
    IF IsSome(app.selected_list)
    THEN LET list == Unwrap(app.selected_list)
             entity == FirstEntity(app.nav_model)
             m == IF IsSome(entity) THEN Remove(app.nav_model, Unwrap(entity))
                  ELSE app.nav_model
             r == UpdateContentMessage([app EXCEPT !.nav_model = m], ListMsg(None))
         IN  R([r.app EXCEPT !.selected_list = None],
               r.cmds \o <<DeleteListCmd(list.id)>>)
    ELSE R(app, <<>>)

\* Message::DeleteList
UpdateDeleteList(app) ==
    IF IsSome(app.selected_list)
    THEN LET list == Unwrap(app.selected_list)
             entity == FindById(app.nav_model, list.id)
             m == IF IsSome(entity) THEN Remove(app.nav_model, Unwrap(entity))
                  ELSE app.nav_model
             r == UpdateContentMessage([app EXCEPT !.nav_model = m], ListMsg(None))
         IN  R([r.app EXCEPT !.selected_list = None],
               r.cmds \o <<DeleteListCmd(list.id)>>)
    ELSE R(app, <<>>)

\* UpdateList that sends the list to the backend once more
UpdateUpdateList_Retries(app, list) ==
    R([app EXCEPT !.nav_model = DataSet(@, @.active, list)], <<UpdateListCmd(list)>>)

\* Message::UpdateList(list)
UpdateUpdateList(app, list) ==
    R([app EXCEPT !.nav_model = DataSet(@, @.active, list)], <<>>)

\* OpenNewListDialog that queues two dialogs
UpdateOpenNewListDialog_Twice(app) ==
    R([app EXCEPT !.dialog_pages = Append(Append(@, NewItem("")), NewItem(""))],
      <<FocusTextInput>>)

\* OpenNewListDialog that puts the dialog in front of the queue
UpdateOpenNewListDialog_Front(app) ==
    R([app EXCEPT !.dialog_pages = <<NewItem("")>> \o @], <<FocusTextInput>>)

\* Message::OpenNewListDialog
UpdateOpenNewListDialog(app) ==
    R([app EXCEPT !.dialog_pages = Append(@, NewItem(""))], <<FocusTextInput>>)

\* OpenRenameListDialog that leaves the new name blank
UpdateOpenRenameListDialog_Blank(app) ==
    IF IsSome(app.selected_list)
    THEN LET list == Unwrap(app.selected_list)
         IN  R([app EXCEPT !.dialog_pages = Append(@, RenameItem(list.name, ""))],
               <<FocusTextInput>>)
    ELSE R(app, <<>>)

\* Message::OpenRenameListDialog
UpdateOpenRenameListDialog(app) ==
    IF IsSome(app.selected_list)
    THEN LET list == Unwrap(app.selected_list)
         IN  R([app EXCEPT !.dialog_pages = Append(@, RenameItem(list.name, list.name))],
               <<FocusTextInput>>)
    ELSE R(app, <<>>)

\* Message::OpenDeleteListDialog
UpdateOpenDeleteListDialog(app) ==
    IF IsSome(app.selected_list)
    THEN R([app EXCEPT !.dialog_pages =
                Append(@, DeleteItem(Unwrap(app.selected_list).name))], <<>>)
    ELSE R(app, <<>>)

\* dialog_pages.pop_front(): the queue without its front
PopFront(pages) == IF pages = <<>> THEN <<>> ELSE Tail(pages)

\* DialogCancel that behaves as the escape key: it hides the context panel
\* when no dialog is queued
UpdateDialogCancel_AsEscape(app) ==
    IF app.dialog_pages # <<>>
    THEN R([app EXCEPT !.dialog_pages = Tail(@)], <<>>)
    ELSE R([app EXCEPT !.show_context = FALSE], <<>>)

\* Message::DialogCancel
UpdateDialogCancel(app) ==
    R([app EXCEPT !.dialog_pages = PopFront(@)], <<>>)

\* DialogComplete that creates the list under the blank default name
UpdateDialogComplete_BlankName(app) ==
    IF app.dialog_pages = <<>> THEN R(app, <<>>)
    ELSE LET dialog_page == Head(app.dialog_pages)
             app1 == [app EXCEPT !.dialog_pages = Tail(@)]
         IN  CASE dialog_page.kind = "NewItem" ->
                    R([app1 EXCEPT !.next_id = @ + 1],
                      <<CreateList(List(app1.next_id, ""))>>)
               [] dialog_page.kind = "RenameItem" ->
                    IF IsSome(app1.selected_list)
                    THEN R(app1, <<UpdateListCmd(
                             [Unwrap(app1.selected_list) EXCEPT !.name = dialog_page.to])>>)
                    ELSE R(app1, <<>>)
               [] dialog_page.kind = "DeleteItem" ->
                    IF IsSome(app1.selected_list)
                    THEN UpdateDeleteList(app1)
                    ELSE R(app1, <<>>)

\* DialogComplete that deletes the list but drops the batch of the nested
\* DeleteList
UpdateDialogComplete_DropNested(app) ==
    IF app.dialog_pages = <<>> THEN R(app, <<>>)
    ELSE LET dialog_page == Head(app.dialog_pages)
             app1 == [app EXCEPT !.dialog_pages = Tail(@)]
         IN  CASE dialog_page.kind = "NewItem" ->
                    R([app1 EXCEPT !.next_id = @ + 1],
                      <<CreateList(List(app1.next_id, dialog_page.name))>>)
               [] dialog_page.kind = "RenameItem" ->
                    IF IsSome(app1.selected_list)
                    THEN R(app1, <<UpdateListCmd(
                             [Unwrap(app1.selected_list) EXCEPT !.name = dialog_page.to])>>)
                    ELSE R(app1, <<>>)
               [] dialog_page.kind = "DeleteItem" ->
                    IF IsSome(app1.selected_list)
                    THEN R(UpdateDeleteList(app1).app, <<>>)
                    ELSE R(app1, <<>>)

\* Message::DialogComplete
UpdateDialogComplete(app) ==
    IF app.dialog_pages = <<>> THEN R(app, <<>>)
    ELSE LET dialog_page == Head(app.dialog_pages)
             app1 == [app EXCEPT !.dialog_pages = Tail(@)]
         IN  CASE dialog_page.kind = "NewItem" ->
                    R([app1 EXCEPT !.next_id = @ + 1],
                      <<CreateList(List(app1.next_id, dialog_page.name))>>)
               [] dialog_page.kind = "RenameItem" ->
                    IF IsSome(app1.selected_list)
                    THEN R(app1, <<UpdateListCmd(
                             [Unwrap(app1.selected_list) EXCEPT !.name = dialog_page.to])>>)
                    ELSE R(app1, <<>>)
               [] dialog_page.kind = "DeleteItem" ->
                    IF IsSome(app1.selected_list)
                    THEN UpdateDeleteList(app1)
                    ELSE R(app1, <<>>)

\* DialogUpdate that writes the page to the back of the queue
UpdateDialogUpdate_Back(app, dialog_page) ==
    IF app.dialog_pages = <<>> THEN Panic(app)
    ELSE R([app EXCEPT !.dialog_pages[Len(app.dialog_pages)] = dialog_page], <<>>)

\* DialogUpdate that shows the page when no dialog is queued
UpdateDialogUpdate_Pushes(app, dialog_page) ==
    IF app.dialog_pages = <<>>
    THEN R([app EXCEPT !.dialog_pages = <<dialog_page>>], <<>>)
    ELSE R([app EXCEPT !.dialog_pages[1] = dialog_page], <<>>)

\* Message::DialogUpdate(dialog_page): dialog_pages[0] = dialog_page, an
\* index out of bounds (a panic) when the queue is empty
UpdateDialogUpdate(app, dialog_page) ==
    IF app.dialog_pages = <<>> THEN Panic(app)
    ELSE R([app EXCEPT !.dialog_pages[1] = dialog_page], <<>>)

\* Message::WindowClose: window::close(window::Id::MAIN)
UpdateWindowClose(app) == R(app, <<WindowCloseCmd>>)

\* Message::WindowNew and Message::LaunchUrl: a process is spawned, errors
\* are logged; the App value is not touched
UpdateWindowNew(app) == R(app, <<>>)
UpdateLaunchUrl(app) == R(app, <<>>)

\* App::update_config: app::command::set_theme(self.config.app_theme.theme())
update_config(app) == R(app, <<SetTheme(app.config.app_theme)>>)

\* AppTheme
AppThemes == {"System", "Dark", "Light"}

\* Config::set_app_theme(config_handler, value), the setter that the derive
\* of the configuration entry generates: the value is put in the Config and
\* written through the handler; `saved` tells whether that write succeeds.
\* The Config holds the value whether or not it does.
set_app_theme(self, value, saved) ==
    [config |-> [self EXCEPT !.app_theme = value],
     result |-> IF saved THEN "Ok" ELSE "Err"]

\* config_set! whose arm for no handler only logs the warning
config_set_NoHandlerDrops(app, app_theme, saved) ==
    IF app.config.handler
    THEN [app EXCEPT !.config = set_app_theme(@, app_theme, saved).config]
    ELSE app

\* config_set!(app_theme, value): with a handler the setter is called and
\* its error, if any, is logged; without one the value is assigned to
\* self.config and a warning is logged
config_set(app, app_theme, saved) ==
    IF app.config.handler
    THEN [app EXCEPT !.config = set_app_theme(@, app_theme, saved).config]
    ELSE [app EXCEPT !.config.app_theme = app_theme]

\* Message::AppTheme(app_theme), `saved` being the outcome of the write of
\* the configuration that it attempts
UpdateAppTheme(app, app_theme, saved) ==
    update_config(config_set(app, app_theme, saved))

\* Message::SystemThemeModeChange(_)
UpdateSystemThemeModeChange(app) == update_config(app)

\* Message::Modifiers(modifiers)
UpdateModifiers(app, m) == R([app EXCEPT !.modifiers = m], <<>>)

\* the loop of DetailsMessage with a Complete that writes the task shown
\* back to the backend
DetailsCommand_CompleteWrites(app, c) ==
    CASE c.cmd = "Update" -> R(app, <<UpdateTask(c.task)>>)
      [] c.cmd \in {"Rename", "PriorityActivate"} ->
            UpdateContentMessage(app, ViewMsg(c.answer))
      [] c.cmd = "Complete" ->
            IF IsSome(app.details.task)
            THEN R(app, <<UpdateTask(Unwrap(app.details.task))>>)
            ELSE R(app, <<>>)
      [] c.cmd \in {"Delete", "Favorite"} -> R(app, <<>>)

\* one details::Command of the loop of Message::DetailsMessage
DetailsCommand(app, c) ==
    CASE c.cmd = "Update" -> R(app, <<UpdateTask(c.task)>>)
      [] c.cmd \in {"Rename", "PriorityActivate"} ->
            UpdateContentMessage(app, ViewMsg(c.answer))
      [] c.cmd \in {"Delete", "Complete", "Favorite"} -> R(app, <<>>)

RECURSIVE DetailsCommands(_, _)
DetailsCommands(app, intents) ==
    IF intents = <<>> THEN R(app, <<>>)
    ELSE LET r1 == DetailsCommand(app, Head(intents))
             r2 == DetailsCommands(r1.app, Tail(intents))
         IN  R(r2.app, r1.cmds \o r2.cmds)

\* Message::DetailsMessage(message), given by the intents Details answers
UpdateDetailsMessage(app, intents) == DetailsCommands(app, intents)

\* Action, and the table key_binds(): one Action per chord, a chord being
\* named here after the Action bound to it
Actions == {"About", "ItemDown", "ItemUp", "Settings", "WindowClose",
            "WindowNew", "NewList", "DeleteList", "RenameList"}
Chords == Actions \cup {"unbound"}
KeyBinds == [chord \in Actions |-> chord]

\* Action::message, applied at once: update(action.message(None))
UpdateAction(app, action) ==
    CASE action = "About" -> UpdateToggleContextPage(app, "About")
      [] action = "Settings" -> UpdateToggleContextPage(app, "Settings")
      [] action \in {"ItemDown", "ItemUp"} -> UpdateContentMessage(app, ViewMsg(<<>>))
      [] action = "WindowClose" -> UpdateWindowClose(app)
      [] action = "WindowNew" -> UpdateWindowNew(app)
      [] action = "NewList" -> UpdateOpenNewListDialog(app)
      [] action = "RenameList" -> UpdateOpenRenameListDialog(app)
      [] action = "DeleteList" -> UpdateOpenDeleteListDialog(app)

\* Key that walks the bindings but dispatches nothing
UpdateKey_NoDispatch(app, chord) == R(app, <<>>)

\* Key that dispatches the Message of the Action but drops the batch of
\* the nested update
UpdateKey_DropBatch(app, chord) ==
    IF chord \in DOMAIN KeyBinds THEN R(UpdateAction(app, KeyBinds[chord]).app, <<>>)
    ELSE R(app, <<>>)

\* Message::Key(modifiers, key): the first binding that matches the chord
UpdateKey(app, chord) ==
    IF chord \in DOMAIN KeyBinds THEN UpdateAction(app, KeyBinds[chord])
    ELSE R(app, <<>>)

\* App::update(message)
update(app, message) ==
    CASE message.type = "ContentMessage" -> UpdateContentMessage(app, message.message)
      [] message.type = "DetailsMessage" -> UpdateDetailsMessage(app, message.intents)
      [] message.type = "ToggleContextPage" -> UpdateToggleContextPage(app, message.page)
      [] message.type = "WindowClose" -> UpdateWindowClose(app)
      [] message.type = "WindowNew" -> UpdateWindowNew(app)
      [] message.type = "LaunchUrl" -> UpdateLaunchUrl(app)
      [] message.type = "AppTheme" ->
            UpdateAppTheme(app, message.app_theme, message.saved)
      [] message.type = "SystemThemeModeChange" -> UpdateSystemThemeModeChange(app)
      [] message.type = "PopulateLists" -> UpdatePopulateLists(app, message.lists)
      [] message.type = "Key" -> UpdateKey(app, message.chord)
      [] message.type = "Modifiers" -> UpdateModifiers(app, message.modifiers)
      [] message.type = "OpenNewListDialog" -> UpdateOpenNewListDialog(app)
      [] message.type = "OpenRenameListDialog" -> UpdateOpenRenameListDialog(app)
      [] message.type = "OpenDeleteListDialog" -> UpdateOpenDeleteListDialog(app)
      [] message.type = "AddList" -> UpdateAddList(app, message.list)
      [] message.type = "DeleteList" -> UpdateDeleteList(app)
      [] message.type = "UpdateList" -> UpdateUpdateList(app, message.list)
      [] message.type = "DialogCancel" -> UpdateDialogCancel(app)
      [] message.type = "DialogComplete" -> UpdateDialogComplete(app)
      [] message.type = "DialogUpdate" -> UpdateDialogUpdate(app, message.dialog_page)

\* key_binds() with a second binding that matches the chord of NewList
KeyBindTable_Duplicate ==
    {[key_bind |-> c, action |-> KeyBinds[c]] : c \in DOMAIN KeyBinds}
        \cup {[key_bind |-> "NewList", action |-> "WindowClose"]}

\* self.key_binds: the entries of the HashMap<KeyBind, Action>
KeyBindTable == {[key_bind |-> c, action |-> KeyBinds[c]] : c \in DOMAIN KeyBinds}

\* key_bind.matches(modifiers, &key)
Matches(key_bind, chord) == key_bind = chord

\* Message::Key(modifiers, key) over every iteration order of the HashMap:
\* the order is not specified, so each entry that matches comes first in
\* some order and update returns what its Action does
KeyOutcomes(app, chord) ==
    LET matching == {e \in KeyBindTable : Matches(e.key_bind, chord)}
    IN  IF matching = {} THEN {R(app, <<>>)}
        ELSE {UpdateAction(app, e.action) : e \in matching}

\* on_escape that closes the front dialog and the context panel at once
on_escape_Both(app) ==
    R([app EXCEPT !.dialog_pages = PopFront(@), !.show_context = FALSE], <<>>)

\* App::on_escape
on_escape(app) ==
    IF app.dialog_pages # <<>>
    THEN R([app EXCEPT !.dialog_pages = Tail(@)], <<>>)
    ELSE R([app EXCEPT !.show_context = FALSE], <<>>)

----------------------------------------------------------------------------
(* The event loop: one action per Message that enters update, per hook of  *)
(* the toolkit and per backend command that resolves.                      *)

\* the Messages without a payload, as recorded in last
Msg(type) == [type |-> type]

\* the commands of a batch that are backend futures, added to those in flight
RECURSIVE Spawn(_, _)
Spawn(bag, cmds) ==
    IF cmds = <<>> THEN bag
    ELSE Spawn(IF Head(cmds).op \in BackendOps
               THEN bag (+) SetToBag({Head(cmds)}) ELSE bag,
               Tail(cmds))

\* the futures whose result is a Message of the controller
AnswerOps == {"fetch_lists", "create_list", "update_list"}

\* how many futures of the bag have an op in ops
InFlight(bag, ops) ==
    BagCardinality([c \in {x \in BagToSet(bag) : x.op \in ops} |-> bag[c]])

\* the App value becomes the state
Become(app) ==
    /\ nav_model' = app.nav_model
    /\ selected_list' = app.selected_list
    /\ dialog_pages' = app.dialog_pages
    /\ context_page' = app.context_page
    /\ show_context' = app.show_context
    /\ context_title' = app.context_title
    /\ details' = app.details
    /\ content_list' = app.content_list
    /\ config' = app.config
    /\ modifiers' = app.modifiers
    /\ next_id' = app.next_id

\* update(msg) returned r: the batch is recorded, nothing is spawned
Applied(msg, r) ==
    /\ ~panicked
    /\ panicked' = Panicked(r)
    /\ Become(r.app)
    /\ commands' = r.cmds
    /\ last' = msg
    /\ pre' = App

\* update(msg) returned r while the futures in `flight` were in flight: the
\* runtime spawns the batch
Handled(msg, r, flight) ==
    /\ Len(r.app.dialog_pages) <= MaxDialogs
    /\ InFlight(Spawn(flight, r.cmds), AnswerOps) <= MaxPending
    /\ InFlight(Spawn(flight, r.cmds), BackendOps \ AnswerOps) <= MaxQuiet
    /\ Applied(msg, r)
    /\ pending' = Spawn(flight, r.cmds)

\* the futures in flight once c has resolved
Resolved(c) == pending (-) SetToBag({c})

\* App::init: the App value it builds
InitApp == [nav_model |-> EmptyModel, selected_list |-> None,
            dialog_pages |-> <<>>, context_page |-> "Settings",
            show_context |-> FALSE, context_title |-> "",
            details |-> [task |-> None, priority |-> None],
            content_list |-> None,
            config |-> [app_theme |-> "System", handler |-> TRUE],
            modifiers |-> {}, next_id |-> 1]

\* the state once init has returned cmds and the futures in `flight` run
InitWith(cmds, flight) ==
    /\ nav_model = InitApp.nav_model
    /\ selected_list = InitApp.selected_list
    /\ dialog_pages = InitApp.dialog_pages
    /\ context_page = InitApp.context_page
    /\ show_context = InitApp.show_context
    /\ context_title = InitApp.context_title
    /\ details = InitApp.details
    /\ content_list = InitApp.content_list
    /\ config = InitApp.config
    /\ modifiers = InitApp.modifiers
    /\ next_id = InitApp.next_id
    /\ panicked = FALSE
    /\ pending = flight
    /\ commands = cmds
    /\ last = Msg("init")
    /\ pre = InitApp

\* App::init: fetch_lists is spawned
Init == InitWith(<<FetchLists>>, SetToBag({FetchLists}))

\* the lists a read of the backend returns: fresh ids, any names
ListsFrom(id, names) == [i \in 1..Len(names) |-> List(id + i - 1, names[i])]
NameSeqs(n) == UNION {[1..k -> Names] : k \in 0..n}

\* fetch_lists resolves: Message::PopulateLists(data)
PopulateLists ==
    /\ BagIn(FetchLists, pending)
    /\ \E names \in NameSeqs(MaxLists + 1 - next_id) :
         LET msg == [type |-> "PopulateLists", lists |-> ListsFrom(next_id, names)]
         IN  Handled(msg, update([App EXCEPT !.next_id = @ + Len(names)], msg),
                     Resolved(FetchLists))

\* create_list resolves with Ok(list): Message::AddList(list)
AddList ==
    \E c \in BagToSet(pending) :
        /\ c.op = "create_list"
        /\ LET msg == [type |-> "AddList", list |-> c.list]
           IN  Handled(msg, update(App, msg), Resolved(c))

\* update_list resolves with Ok(_): Message::UpdateList(list)
UpdateList ==
    \E c \in BagToSet(pending) :
        /\ c.op = "update_list"
        /\ LET msg == [type |-> "UpdateList", list |-> c.list]
           IN  Handled(msg, update(App, msg), Resolved(c))

\* fetch_tasks resolves: Message::ContentMessage(SetItems(data)), which
\* Content answers with no intent
SetItems ==
    \E c \in BagToSet(pending) :
        /\ c.op = "fetch_tasks"
        /\ LET msg == [type |-> "ContentMessage", message |-> ViewMsg(<<>>)]
           IN  Handled(msg, update(App, msg), Resolved(c))

\* a failed write that is reported to the controller as Message::DialogCancel
NoMessage_Cancels ==
    \E c \in BagToSet(pending) :
        /\ c.op \in BackendOps \ {"fetch_lists", "fetch_tasks"}
        /\ Handled(Msg("DialogCancel"), update(App, Msg("DialogCancel")), Resolved(c))

\* a future resolves to message::none(): a failed create_list or
\* update_list, and delete_list and the task writes whatever their result
NoMessage ==
    \E c \in BagToSet(pending) :
        /\ c.op \in BackendOps \ {"fetch_lists", "fetch_tasks"}
        /\ ~panicked
        /\ pending' = Resolved(c)
        /\ UNCHANGED <<nav_model, selected_list, dialog_pages, context_page,
                       show_context, context_title, details, content_list,
                       config, modifiers, next_id, panicked, commands, last, pre>>

\* the user picks an entry of the navigation bar
NavSelect ==
    \E entity \in Entities(nav_model) :
        Handled([type |-> "on_nav_select", entity |-> entity],
                on_nav_select(App, entity), pending)

OpenNewListDialog ==
    Handled(Msg("OpenNewListDialog"), update(App, Msg("OpenNewListDialog")), pending)

OpenRenameListDialog ==
    Handled(Msg("OpenRenameListDialog"), update(App, Msg("OpenRenameListDialog")), pending)

OpenDeleteListDialog ==
    Handled(Msg("OpenDeleteListDialog"), update(App, Msg("OpenDeleteListDialog")), pending)

\* the pages the text input of the dialog shown sends (App::dialog): the
\* front page with the text typed
TypedPages(pages) ==
    IF pages = <<>> THEN {}
    ELSE CASE Head(pages).kind = "NewItem" -> {NewItem(name) : name \in Names}
           [] Head(pages).kind = "RenameItem" ->
                {RenameItem(Head(pages).from, name) : name \in Names}
           [] Head(pages).kind = "DeleteItem" -> {}

DialogUpdate ==
    \E page \in TypedPages(dialog_pages) :
        LET msg == [type |-> "DialogUpdate", dialog_page |-> page]
        IN  Handled(msg, update(App, msg), pending)

DialogCancel ==
    Handled(Msg("DialogCancel"), update(App, Msg("DialogCancel")), pending)

DialogComplete ==
    /\ (dialog_pages # <<>> /\ Head(dialog_pages).kind = "NewItem") => next_id <= MaxLists
    /\ Handled(Msg("DialogComplete"), update(App, Msg("DialogComplete")), pending)

Next ==
    \/ PopulateLists
    \/ AddList
    \/ UpdateList
    \/ SetItems
    \/ NoMessage
    \/ NavSelect
    \/ OpenNewListDialog
    \/ OpenRenameListDialog
    \/ OpenDeleteListDialog
    \/ DialogUpdate
    \/ DialogCancel
    \/ DialogComplete

\* the lists, the dialogs and the backend: the loop from App::init
Spec == Init /\ [][Next]_vars

----------------------------------------------------------------------------
(* The reducer driven message by message from the App value of App::init:  *)
(* update is applied to one Message after the other and the batch it       *)
(* returns is recorded, not run.  A result of the backend may arrive at    *)
(* any time, so among the lists AddList carries any new list and           *)
(* UpdateList any list created so far under any name.                      *)

InitNav == InitWith(<<>>, EmptyBag)

\* update(msg), or a hook, applied to the current state
Drive(msg, r) == Applied(msg, r) /\ UNCHANGED pending

\* Message::PopulateLists with up to n lists of fresh ids
DrivePopulateLists(n) ==
    \E names \in NameSeqs(n) :
        LET msg == [type |-> "PopulateLists", lists |-> ListsFrom(next_id, names)]
        IN  Drive(msg, update([App EXCEPT !.next_id = @ + Len(names)], msg))

\* Message::AddList with a list of a fresh id
DriveAddList ==
    \E name \in Names :
        LET msg == [type |-> "AddList", list |-> List(next_id, name)]
        IN  Drive(msg, update([App EXCEPT !.next_id = @ + 1], msg))

\* the lists, without renames (AddList, DeleteList, PopulateLists and the
\* selection of an entry)
NavPopulateLists == DrivePopulateLists(MaxNavLists + 1 - next_id)

NavAddList == next_id <= MaxNavLists /\ DriveAddList

NavDeleteList == Drive(Msg("DeleteList"), update(App, Msg("DeleteList")))

NavOnSelect ==
    \E entity \in Entities(nav_model) :
        Drive([type |-> "on_nav_select", entity |-> entity], on_nav_select(App, entity))

NextNav ==
    \/ NavPopulateLists
    \/ NavAddList
    \/ NavDeleteList
    \/ NavOnSelect

SpecNav == InitNav /\ [][NextNav]_vars

\* the lists, with the results of renames, over at most MaxRenameLists lists
RenamePopulateLists == DrivePopulateLists(MaxRenameLists + 1 - next_id)

RenameAddList == next_id <= MaxRenameLists /\ DriveAddList

NavUpdateList ==
    \E id \in 1..(next_id - 1), name \in Names :
        LET msg == [type |-> "UpdateList", list |-> List(id, name)]
        IN  Drive(msg, update(App, msg))

NextLists ==
    \/ RenamePopulateLists
    \/ RenameAddList
    \/ NavDeleteList
    \/ NavOnSelect
    \/ NavUpdateList

SpecLists == InitNav /\ [][NextLists]_vars

\* Message::ToggleContextPage(page)
ToggleContextPage ==
    \E page \in ContextPages :
        LET msg == [type |-> "ToggleContextPage", page |-> page]
        IN  Drive(msg, update(App, msg))

\* the dialog queue, over at most MaxQueueLists lists, with the context
\* panel shown and hidden on its Settings page
QueuePopulateLists == DrivePopulateLists(MaxQueueLists + 1 - next_id)

\* the create_list that the last message scheduled succeeds: Message::AddList
QueueAddList ==
    /\ Len(commands) = 1
    /\ commands[1].op = "create_list"
    /\ LET msg == [type |-> "AddList", list |-> commands[1].list]
       IN  Drive(msg, update(App, msg))

QueueOpenDialog ==
    \E t \in {"OpenNewListDialog", "OpenRenameListDialog", "OpenDeleteListDialog"} :
        /\ Len(dialog_pages) < MaxQueue
        /\ Drive(Msg(t), update(App, Msg(t)))

QueueDialogUpdate ==
    \E page \in TypedPages(dialog_pages) :
        LET msg == [type |-> "DialogUpdate", dialog_page |-> page]
        IN  Drive(msg, update(App, msg))

\* a DialogUpdate that reaches update when no dialog is queued
QueueDialogUpdateUnshown ==
    /\ dialog_pages = <<>>
    /\ \E page \in {NewItem(name) : name \in Names} :
          LET msg == [type |-> "DialogUpdate", dialog_page |-> page]
          IN  Drive(msg, update(App, msg))

QueueDialogCancel == Drive(Msg("DialogCancel"), update(App, Msg("DialogCancel")))

QueueDialogComplete ==
    /\ (dialog_pages # <<>> /\ Head(dialog_pages).kind = "NewItem")
          => next_id <= MaxQueueLists
    /\ Drive(Msg("DialogComplete"), update(App, Msg("DialogComplete")))

\* the escape key reaches the application
QueueEscape == Drive(Msg("on_escape"), on_escape(App))

QueueToggleSettings ==
    LET msg == [type |-> "ToggleContextPage", page |-> "Settings"]
    IN  Drive(msg, update(App, msg))

NextQueue ==
    \/ QueuePopulateLists
    \/ QueueAddList
    \/ QueueOpenDialog
    \/ QueueDialogUpdate
    \/ QueueDialogUpdateUnshown
    \/ QueueDialogCancel
    \/ QueueDialogComplete
    \/ QueueEscape
    \/ QueueToggleSettings

SpecDialog == InitNav /\ [][NextQueue]_vars

\* the keyboard: keys pressed with at most MaxKeyLists lists loaded, the
\* dialogs they open being cancelled
KeysPopulateLists == DrivePopulateLists(MaxKeyLists + 1 - next_id)

\* Message::Key(modifiers, key)
KeysKey ==
    \E chord \in Chords :
        LET msg == [type |-> "Key", chord |-> chord]
        IN  /\ Len(update(App, msg).app.dialog_pages) <= MaxKeyDialogs
            /\ Drive(msg, update(App, msg))

KeysDialogCancel == Drive(Msg("DialogCancel"), update(App, Msg("DialogCancel")))

NextKeys ==
    \/ KeysPopulateLists
    \/ KeysKey
    \/ KeysDialogCancel

SpecKeys == InitNav /\ [][NextKeys]_vars

\* the context panel and the two sub-controllers
\* the intents Content answers a message of its view with
ContentAnswers ==
    {<<>>} \cup {<<DisplayTask(t)>> : t \in Tasks}
           \cup {<<UpdateTaskIntent(t)>> : t \in Tasks}
           \cup {<<CreateTaskIntent(t)>> : t \in Tasks}
           \cup {<<DeleteIntent(t.id)>> : t \in Tasks}

\* Message::ContentMessage of Content's view
ContentMessage ==
    \E intents \in ContentAnswers :
        LET msg == [type |-> "ContentMessage", message |-> ViewMsg(intents)]
        IN  Drive(msg, update(App, msg))

Escape == Drive(Msg("on_escape"), on_escape(App))

NextContext ==
    \/ ToggleContextPage
    \/ ContentMessage
    \/ Escape

SpecContext == InitNav /\ [][NextContext]_vars

----------------------------------------------------------------------------
(* Messages to try in a state: every kind of Message, with small payloads  *)

\* the intents Details answers a message of its view with
DetailsAnswers ==
    {<<>>} \cup {<<[cmd |-> "Update", task |-> t]>> : t \in Tasks}
           \cup {<<[cmd |-> c, answer |-> a]>> :
                    c \in {"Rename", "PriorityActivate"},
                    a \in {<<>>} \cup {<<UpdateTaskIntent(t)>> : t \in Tasks}}
           \cup {<<[cmd |-> c]>> : c \in {"Delete", "Complete", "Favorite"}}

AllPages ==
    {NewItem(n) : n \in Names} \cup {DeleteItem(n) : n \in Names}
        \cup {RenameItem(f, t) : f \in Names, t \in Names}

\* the Messages that the toolkit, the views and the backend can send in
\* the state app (DialogUpdate only while a dialog is shown)
Messages(app) ==
    {Msg(t) : t \in {"WindowClose", "WindowNew", "LaunchUrl", "SystemThemeModeChange",
                     "OpenNewListDialog", "OpenRenameListDialog",
                     "OpenDeleteListDialog", "DeleteList", "DialogCancel",
                     "DialogComplete"}}
    \cup {[type |-> "ContentMessage", message |-> ViewMsg(a)] : a \in ContentAnswers}
    \cup {[type |-> "ContentMessage", message |-> ListMsg(l)] :
             l \in {None, app.selected_list}}
    \cup {[type |-> "DetailsMessage", intents |-> a] : a \in DetailsAnswers}
    \cup {[type |-> "ToggleContextPage", page |-> p] : p \in ContextPages}
    \cup {[type |-> "AppTheme", app_theme |-> t, saved |-> b] :
             t \in AppThemes, b \in BOOLEAN}
    \cup {[type |-> "Key", chord |-> c] : c \in Chords}
    \cup {[type |-> "Modifiers", modifiers |-> m] : m \in {{}, {"ctrl"}}}
    \cup {[type |-> "PopulateLists", lists |-> ListsFrom(app.next_id, names)] :
             names \in NameSeqs(2)}
    \cup {[type |-> "AddList", list |-> List(app.next_id, n)] : n \in Names}
    \cup {[type |-> "UpdateList", list |-> List(i, n)] :
             i \in 1..(app.next_id - 1), n \in Names}
    \cup {[type |-> "DialogUpdate", dialog_page |-> p] :
             p \in IF app.dialog_pages = <<>> THEN {} ELSE AllPages}

\* the task panel: tasks shown by Content, the messages of Details, the
\* pages of the context panel, over at most MaxDetailsLists lists and with
\* at most MaxDetailsDialogs dialogs queued
DetailsPopulateLists == DrivePopulateLists(MaxDetailsLists + 1 - next_id)

DetailsOpenDialog ==
    /\ Len(dialog_pages) < MaxDetailsDialogs
    /\ Drive(Msg("OpenNewListDialog"), update(App, Msg("OpenNewListDialog")))

\* Message::DetailsMessage of Details' view
DetailsMessage ==
    \E intents \in DetailsAnswers :
        LET msg == [type |-> "DetailsMessage", intents |-> intents]
        IN  Drive(msg, update(App, msg))

\* Content shows a task (DisplayTask) or answers with nothing
DetailsContentMessage ==
    \E intents \in {<<>>} \cup {<<DisplayTask(t)>> : t \in Tasks} :
        LET msg == [type |-> "ContentMessage", message |-> ViewMsg(intents)]
        IN  Drive(msg, update(App, msg))

NextDetails ==
    \/ DetailsPopulateLists
    \/ DetailsOpenDialog
    \/ DetailsContentMessage
    \/ DetailsMessage

SpecDetails == InitNav /\ [][NextDetails]_vars

\* the theme: the application started with or without a handler of its
\* configuration (main: Flags.config_handler is None when
\* cosmic_config::Config::new fails), the Settings page and the themes
\* picked on it, the writes of the configuration succeeding or failing
InitTheme ==
    \E handler \in BOOLEAN :
        /\ nav_model = InitApp.nav_model
        /\ selected_list = InitApp.selected_list
        /\ dialog_pages = InitApp.dialog_pages
        /\ context_page = InitApp.context_page
        /\ show_context = InitApp.show_context
        /\ context_title = InitApp.context_title
        /\ details = InitApp.details
        /\ content_list = InitApp.content_list
        /\ config = [InitApp.config EXCEPT !.handler = handler]
        /\ modifiers = InitApp.modifiers
        /\ next_id = InitApp.next_id
        /\ panicked = FALSE
        /\ pending = EmptyBag
        /\ commands = <<>>
        /\ last = Msg("init")
        /\ pre = [InitApp EXCEPT !.config.handler = handler]

\* Message::AppTheme(app_theme) from the dropdown of the Settings page
AppTheme ==
    \E t \in AppThemes, saved \in BOOLEAN :
        LET msg == [type |-> "AppTheme", app_theme |-> t, saved |-> saved]
        IN  Drive(msg, update(App, msg))

\* Message::SystemThemeModeChange from the subscriptions
SystemThemeModeChange ==
    Drive(Msg("SystemThemeModeChange"), update(App, Msg("SystemThemeModeChange")))

NextTheme ==
    \/ ToggleContextPage
    \/ AppTheme
    \/ SystemThemeModeChange

SpecTheme == InitTheme /\ [][NextTheme]_vars

\* the closed loop: App::init, the events of the user, and a backend
\* that answers every command, over at most MaxLoopLists lists
LoopPopulateLists ==
    /\ BagIn(FetchLists, pending)
    /\ \E names \in NameSeqs(MaxLoopLists + 1 - next_id) :
         LET msg == [type |-> "PopulateLists", lists |-> ListsFrom(next_id, names)]
         IN  Handled(msg, update([App EXCEPT !.next_id = @ + Len(names)], msg),
                     Resolved(FetchLists))

LoopDialogComplete ==
    /\ (dialog_pages # <<>> /\ Head(dialog_pages).kind = "NewItem")
          => next_id <= MaxLoopLists
    /\ Handled(Msg("DialogComplete"), update(App, Msg("DialogComplete")), pending)

\* a future of the backend resolves
BackendStep ==
    \/ LoopPopulateLists
    \/ AddList
    \/ UpdateList
    \/ SetItems
    \/ NoMessage

\* an event of the user reaches update
ExternalStep ==
    \/ NavSelect
    \/ OpenNewListDialog
    \/ OpenRenameListDialog
    \/ OpenDeleteListDialog
    \/ DialogUpdate
    \/ DialogCancel
    \/ LoopDialogComplete

NextLoop ==
    \/ BackendStep
    \/ ExternalStep

\* the runtime polls the futures it spawned and the backend answers: while
\* a future is in flight, one resolves (with Ok or with Err)
SpecLoop ==
    /\ Init
    /\ [][NextLoop]_vars
    /\ WF_vars(BackendStep)

----------------------------------------------------------------------------
(* Claims *)

\* C1: after any sequence of AddList, DeleteList and PopulateLists (and of
\* selections) from the initial state, at most one navigation entry is
\* active, and selected_list is Some(L) exactly when there is an active
\* entry and the List attached to it is L.
C1_NavigationInvariant ==
    /\ Cardinality({e \in Entities(nav_model) : e = nav_model.active}) <= 1
    /\ selected_list = Data(nav_model, nav_model.active)

\* C1 witness: a DeleteList removed the selected entry of a model that
\* still holds another entry.
C1_Witness ==
    /\ last.type = "DeleteList"
    /\ IsSome(pre.selected_list)
    /\ Len(nav_model.order) >= 1
    /\ Len(nav_model.order) < Len(pre.nav_model.order)

\* C2 (as claimed): in every reachable state the List attached to the
\* active navigation entry equals selected_list.
C2_ActiveEntryIsSelectedList ==
    \A e \in Entities(nav_model) :
        e = nav_model.active => selected_list = Some(nav_model.data[e])

\* the depths of the dialog queue before and after a Message of the given kind
DepthStep(before, type, after) ==
    /\ after - before \in {-1, 0, 1}
    /\ type = "DialogUpdate" => after = before
    /\ (type \in {"DialogComplete", "DialogCancel"} /\ before > 0) => after = before - 1

\* C3: a Message changes the depth of the dialog queue by at most one;
\* DialogUpdate keeps it; DialogComplete and DialogCancel on a non-empty
\* queue lower it by exactly one.  The first conjunct is about the message
\* handled last, the second about every Message that could be handled next.
C3_DialogDepth ==
    /\ last.type \notin {"init", "on_escape"}
          => DepthStep(Len(pre.dialog_pages), last.type, Len(dialog_pages))
    /\ \A m \in Messages(App) :
          DepthStep(Len(dialog_pages), m.type, Len(update(App, m).app.dialog_pages))

\* C3 witness: DialogComplete of a DeleteItem page, with a second dialog
\* queued behind it, deleted the selected list and left one dialog.
C3_Witness ==
    /\ last.type = "DialogComplete"
    /\ Len(pre.dialog_pages) = 2
    /\ Head(pre.dialog_pages).kind = "DeleteItem"
    /\ IsSome(pre.selected_list)
    /\ Len(dialog_pages) = 1
    /\ selected_list = None

\* the entry that AddList(list) added to the navigation model `before`:
\* one entry more, at the end, named after the list, and active
GainedActiveEntry(before, after, list) ==
    /\ Len(after.order) = Len(before.order) + 1
    /\ SubSeq(after.order, 1, Len(before.order)) = before.order
    /\ LET e == after.order[Len(after.order)]
       IN  /\ e \notin Entities(before)
           /\ after.text[e] = list.name
           /\ after.data[e] = list
           /\ after.active = e

\* C4: with no dialog queued, OpenNewListDialog, DialogUpdate(NewItem n),
\* DialogComplete schedule one create_list of a List named n; once AddList
\* of that list is handled, the navigation model has one entry more, named
\* n and active, and no dialog is queued.
C4_NewListScenario ==
    dialog_pages = <<>> =>
        \A n \in Names :
            LET r1 == update(App, Msg("OpenNewListDialog"))
                r2 == update(r1.app, [type |-> "DialogUpdate", dialog_page |-> NewItem(n)])
                r3 == update(r2.app, Msg("DialogComplete"))
                r4 == update(r3.app, [type |-> "AddList", list |-> r3.cmds[1].list])
            IN  /\ Len(r3.cmds) = 1
                /\ r3.cmds[1].op = "create_list"
                /\ r3.cmds[1].list.name = n
                /\ GainedActiveEntry(nav_model, r4.app.nav_model, r3.cmds[1].list)
                /\ r4.app.dialog_pages = <<>>

\* C4 witness: the dialog of a new list, typed "a", was completed with no
\* other dialog queued, and the AddList of the list it created has added
\* the active entry "a".
C4_Witness ==
    /\ last.type = "AddList"
    /\ last.list.name = "a"
    /\ pre.dialog_pages = <<>>
    /\ dialog_pages = <<>>
    /\ GainedActiveEntry(pre.nav_model, nav_model, last.list)

\* the message of Content's view that Content answers with DisplayTask(t)
DisplayTaskMessage(t) ==
    [type |-> "ContentMessage", message |-> ViewMsg(<<DisplayTask(t)>>)]

\* C5 (as claimed): after the controller handled a DisplayTask(task) of
\* Content, whatever the state before, the context panel is shown, its page
\* is TaskDetails, details.task is the task and the priority selector is at
\* the task's priority.
C5_DisplayTaskOpensPanel ==
    \A t \in Tasks :
        last = DisplayTaskMessage(t) =>
            /\ show_context
            /\ context_page = "TaskDetails"
            /\ details.task = Some(t)
            /\ details.priority = Some(t.priority)

\* the message ToggleContextPage(Settings)
ToggleSettings == [type |-> "ToggleContextPage", page |-> "Settings"]

\* C6 (as claimed): after ToggleContextPage(Settings), a second
\* ToggleContextPage(Settings) right after it gives show_context the value
\* it had before the first, whatever the page and the flag were.
C6_ToggleTwiceRestores ==
    last = ToggleSettings =>
        update(App, ToggleSettings).app.show_context = pre.show_context

\* C6 (amended): the same, when before the first ToggleContextPage(Settings)
\* the page was Settings or the panel was hidden.
C6_ToggleTwiceRestoresOnSamePage ==
    (/\ last = ToggleSettings
     /\ pre.context_page = "Settings" \/ ~pre.show_context)
        => update(App, ToggleSettings).app.show_context = pre.show_context

\* C6 witness: ToggleContextPage(Settings) hid the panel that showed the
\* Settings page, and a second one would show it again.
C6_Witness ==
    /\ last = ToggleSettings
    /\ pre.context_page = "Settings"
    /\ pre.show_context
    /\ ~show_context
    /\ update(App, ToggleSettings).app.show_context

\* C7 (as claimed): when UpdateList(L) is handled the active entry is the
\* entry of the renamed list (its List had the id of L), and no message
\* changes the id of the List attached to an entry.
C7_UpdateListKeepsIds ==
    /\ (last.type = "UpdateList" /\ pre.nav_model.active \in Entities(pre.nav_model))
          => pre.nav_model.data[pre.nav_model.active].id = last.list.id
    /\ last.type # "init"
          => \A e \in Entities(pre.nav_model) \cap Entities(nav_model) :
                 nav_model.data[e].id = pre.nav_model.data[e].id

\* C8: PopulateLists([A, B, C]) and then on_nav_select of the entry of B
\* give selected_list = Some(B), make the entry of B the active one, and
\* the selection returns exactly one command, fetch_tasks(B.id).
C8_PopulateThenSelect ==
    \A names \in [1..3 -> Names] :
        LET lists == ListsFrom(next_id, names)
            r1 == update([App EXCEPT !.next_id = @ + 3],
                         [type |-> "PopulateLists", lists |-> lists])
            b == r1.app.nav_model.order[Len(nav_model.order) + 2]
            r2 == on_nav_select(r1.app, b)
        IN  /\ r1.app.nav_model.data[b] = lists[2]
            /\ r2.app.selected_list = Some(lists[2])
            /\ r2.app.nav_model.active = b
            /\ r2.cmds = <<FetchTasks(lists[2].id)>>

\* C8 witness: PopulateLists loaded three lists into the empty model, and
\* the second entry was then selected.
C8_Witness ==
    /\ last.type = "on_nav_select"
    /\ Len(nav_model.order) = 3
    /\ next_id = 4
    /\ last.entity = nav_model.order[2]
    /\ pre.nav_model.active = nav_model.order[1]
    /\ nav_model.active = nav_model.order[2]
    /\ selected_list = Some(List(2, "a"))
    /\ commands = <<FetchTasks(2)>>

\* selected_list is Some(L) and no entry of the model has a List of id L.id
SelectedWithoutEntry(app) ==
    /\ IsSome(app.selected_list)
    /\ \A e \in Entities(app.nav_model) :
           app.nav_model.data[e].id # Unwrap(app.selected_list).id

\* C9: DeleteList handled with selected_list = Some(L) and no entry of id
\* L.id removes no entry, sets selected_list to None and schedules one
\* delete_list, for L.id.
C9_DeleteListWithoutEntry ==
    (last.type = "DeleteList" /\ SelectedWithoutEntry(pre)) =>
        /\ nav_model.order = pre.nav_model.order
        /\ nav_model.data = pre.nav_model.data
        /\ selected_list = None
        /\ \E i \in 1..Len(commands) :
              /\ commands[i] = DeleteListCmd(Unwrap(pre.selected_list).id)
              /\ \A j \in 1..Len(commands) : commands[j].op = "delete_list" => j = i

\* C9 witness: the selected list had lost its entry's data to the rename of
\* another list, and DeleteList was handled.
C9_Witness ==
    /\ last.type = "DeleteList"
    /\ SelectedWithoutEntry(pre)
    /\ Len(nav_model.order) = 2
    /\ selected_list = None

\* C10: DialogCancel handled with no dialog queued schedules no command and
\* changes nothing of the App value.
C10_DialogCancelOnEmpty ==
    (last.type = "DialogCancel" /\ pre.dialog_pages = <<>>) =>
        /\ commands = <<>>
        /\ App = pre

\* C10 witness: DialogCancel was handled with no dialog queued, while a
\* list was selected and the context panel was shown.
C10_Witness ==
    /\ last.type = "DialogCancel"
    /\ pre.dialog_pages = <<>>
    /\ IsSome(pre.selected_list)
    /\ pre.show_context
    /\ dialog_pages = <<>>

\* Action::message: the Message of an Action
ActionMessage(action) ==
    CASE action = "About" -> [type |-> "ToggleContextPage", page |-> "About"]
      [] action = "Settings" -> [type |-> "ToggleContextPage", page |-> "Settings"]
      [] action \in {"ItemDown", "ItemUp"} ->
            [type |-> "ContentMessage", message |-> ViewMsg(<<>>)]
      [] action = "WindowClose" -> Msg("WindowClose")
      [] action = "WindowNew" -> Msg("WindowNew")
      [] action = "NewList" -> Msg("OpenNewListDialog")
      [] action = "RenameList" -> Msg("OpenRenameListDialog")
      [] action = "DeleteList" -> Msg("OpenDeleteListDialog")

\* the batch of update(app, ContentMessage(message))
ContentBatch(app, message) ==
    update(app, [type |-> "ContentMessage", message |-> message]).cmds

\* C11: the batch returned by a message that dispatches another message
\* holds the batch of the nested call, whole and in order, at the place
\* where the nested call was made: DialogComplete of DeleteItem (on the
\* message handled last), Key, DeleteList, on_nav_select, the Rename and
\* PriorityActivate of Details, and DisplayTask (on the messages that could
\* be handled next).
C11_NestedBatchFlattened ==
    /\ (/\ last.type = "DialogComplete"
        /\ pre.dialog_pages # <<>>
        /\ Head(pre.dialog_pages).kind = "DeleteItem"
        /\ IsSome(pre.selected_list))
          => commands = update([pre EXCEPT !.dialog_pages = Tail(@)],
                               Msg("DeleteList")).cmds
    /\ \A chord \in DOMAIN KeyBinds :
          update(App, [type |-> "Key", chord |-> chord]).cmds
              = update(App, ActionMessage(KeyBinds[chord])).cmds
    /\ IsSome(selected_list) =>
          update(App, Msg("DeleteList")).cmds
              = ContentBatch(App, ListMsg(None))
                    \o <<DeleteListCmd(Unwrap(selected_list).id)>>
    /\ \A e \in Entities(nav_model) :
          on_nav_select(App, e).cmds = ContentBatch(App, ListMsg(Some(nav_model.data[e])))
    /\ \A t \in Tasks, c \in {"Rename", "PriorityActivate"},
          a \in {<<>>} \cup {<<UpdateTaskIntent(u)>> : u \in Tasks} :
          update(App, [type |-> "DetailsMessage",
                       intents |-> <<[cmd |-> "Update", task |-> t],
                                     [cmd |-> c, answer |-> a],
                                     [cmd |-> "Update", task |-> t]>>]).cmds
              = <<UpdateTask(t)>> \o ContentBatch(App, ViewMsg(a)) \o <<UpdateTask(t)>>
    /\ \A t \in Tasks :
          ContentBatch(App, ViewMsg(<<CreateTaskIntent(t), DisplayTask(t),
                                      UpdateTaskIntent(t)>>))
              = <<CreateTask(t)>>
                    \o update(App, [type |-> "ToggleContextPage",
                                    page |-> "TaskDetails"]).cmds
                    \o <<UpdateTask(t)>>

\* C11 witness: DialogComplete of a DeleteItem page dispatched DeleteList
\* for the selected list and returned its delete_list command.
C11_Witness ==
    /\ last.type = "DialogComplete"
    /\ pre.dialog_pages # <<>>
    /\ Head(pre.dialog_pages).kind = "DeleteItem"
    /\ IsSome(pre.selected_list)
    /\ commands = <<DeleteListCmd(Unwrap(pre.selected_list).id)>>
    /\ update(App, [type |-> "Key", chord |-> "NewList"]).cmds = <<FocusTextInput>>

\* the backend writes
WriteOps == {"create_list", "update_list", "delete_list",
             "create_task", "update_task", "delete_task"}

\* the futures w of the bag
Copies(bag, w) == IF BagIn(w, bag) THEN bag[w] ELSE 0

\* one step of the loop: a write that resolves either is a create_list
\* whose list AddList carries, or an update_list whose list UpdateList
\* carries, or changes nothing of the lists and the dialogs; and a handled
\* AddList or UpdateList that changed the model took its future away
WriteResolves ==
    /\ \A w \in BagToSet(pending) :
          (w.op \in WriteOps /\ Copies(pending', w) < Copies(pending, w)) =>
              \/ w.op = "create_list" /\ last' = [type |-> "AddList", list |-> w.list]
              \/ w.op = "update_list" /\ last' = [type |-> "UpdateList", list |-> w.list]
              \/ UNCHANGED <<nav_model, selected_list, dialog_pages>>
    /\ (last'.type = "AddList" /\ nav_model' # nav_model) =>
          Copies(pending', CreateList(last'.list)) < Copies(pending, CreateList(last'.list))
    /\ (last'.type = "UpdateList" /\ nav_model' # nav_model) =>
          Copies(pending', UpdateListCmd(last'.list))
              < Copies(pending, UpdateListCmd(last'.list))

C13_DialogUpdateFrontOnly ==
    /\ (last.type = "DialogUpdate" /\ pre.dialog_pages # <<>>) =>
          /\ dialog_pages = <<last.dialog_page>> \o Tail(pre.dialog_pages)
          /\ nav_model = pre.nav_model
          /\ selected_list = pre.selected_list
          /\ commands = <<>>
          /\ ~panicked
    /\ dialog_pages # <<>> =>
          \A p \in AllPages :
              LET r == update(App, [type |-> "DialogUpdate", dialog_page |-> p])
              IN  /\ r.app = [App EXCEPT !.dialog_pages = <<p>> \o Tail(dialog_pages)]
                  /\ r.cmds = <<>>
                  /\ ~Panicked(r)

\* C13 witness: the text typed into the dialog shown changed its page while
\* a second dialog was queued behind it and a list was selected.
C13_Witness ==
    /\ last.type = "DialogUpdate"
    /\ Len(pre.dialog_pages) = 2
    /\ Head(dialog_pages) # Head(pre.dialog_pages)
    /\ Head(dialog_pages) # dialog_pages[2]
    /\ IsSome(selected_list)

\* C14: DialogUpdate handled with no dialog queued panics: update does not
\* return, no dialog is pushed, and nothing is handled afterwards.
C14_DialogUpdateOnEmptyPanics ==
    /\ (last.type = "DialogUpdate" /\ pre.dialog_pages = <<>>) =>
          panicked /\ dialog_pages = <<>>
    /\ dialog_pages = <<>> =>
          \A p \in AllPages :
              LET r == update(App, [type |-> "DialogUpdate", dialog_page |-> p])
              IN  Panicked(r) /\ r.app.dialog_pages = <<>>
    /\ panicked => ~ENABLED NextQueue

\* C14 witness: a DialogUpdate was handled with no dialog queued.
C14_Witness ==
    /\ last.type = "DialogUpdate"
    /\ pre.dialog_pages = <<>>
    /\ panicked

\* C15: the escape key with a dialog queued pops exactly the front dialog,
\* returns no command and keeps show_context; with no dialog queued it
\* hides the context panel and the queue stays empty.
C15_EscapeClosesOneThing ==
    last.type = "on_escape" =>
        IF pre.dialog_pages # <<>>
        THEN /\ dialog_pages = Tail(pre.dialog_pages)
             /\ commands = <<>>
             /\ show_context = pre.show_context
        ELSE /\ ~show_context
             /\ dialog_pages = <<>>
             /\ commands = <<>>

\* C15 witness: escape closed the front dialog of two while the context
\* panel was shown, and the panel is still shown.
C15_Witness ==
    /\ last.type = "on_escape"
    /\ Len(pre.dialog_pages) = 2
    /\ pre.show_context
    /\ show_context
    /\ dialog_pages = Tail(pre.dialog_pages)

\* C16: OpenNewListDialog pushes NewItem with an empty name;
\* OpenRenameListDialog and OpenDeleteListDialog push RenameItem{from: name,
\* to: name} and DeleteItem{name} of the selected list, and with no list
\* selected they push nothing and change nothing of the App value.
C16_OpenDialogPages ==
    /\ last.type = "OpenNewListDialog" =>
          dialog_pages = Append(pre.dialog_pages, NewItem(""))
    /\ last.type = "OpenRenameListDialog" =>
          IF IsSome(pre.selected_list)
          THEN dialog_pages = Append(pre.dialog_pages,
                                     RenameItem(Unwrap(pre.selected_list).name,
                                                Unwrap(pre.selected_list).name))
          ELSE App = pre /\ commands = <<>>
    /\ last.type = "OpenDeleteListDialog" =>
          IF IsSome(pre.selected_list)
          THEN dialog_pages = Append(pre.dialog_pages,
                                     DeleteItem(Unwrap(pre.selected_list).name))
          ELSE App = pre /\ commands = <<>>

\* C16 witness: the rename dialog of the selected list "a" was queued
\* behind another dialog.
C16_Witness ==
    /\ last.type = "OpenRenameListDialog"
    /\ pre.selected_list # None
    /\ Len(pre.dialog_pages) = 1
    /\ dialog_pages[2] = RenameItem("a", "a")

C18_DialogActsOnItsList ==
    (/\ last.type = "DialogComplete"
     /\ pre.dialog_pages # <<>>
     /\ IsSome(pre.selected_list)) =>
        LET page == Head(pre.dialog_pages)
            list == Unwrap(pre.selected_list)
        IN  /\ page.kind = "RenameItem" => list.name = page.from
            /\ page.kind = "DeleteItem" => list.name = page.name

\* the entries of the model m whose List has the id
WithId(m, id) == {e \in Entities(m) : m.data[e].id = id}

\* the place of the entry e in the display order of the model m
Pos(m, e) == CHOOSE i \in 1..Len(m.order) : m.order[i] = e

\* the batch holds exactly one delete_list, and it is for the id
OneDeleteList(cmds, id) ==
    \E i \in 1..Len(cmds) :
        /\ cmds[i] = DeleteListCmd(id)
        /\ \A j \in 1..Len(cmds) : cmds[j].op = "delete_list" => j = i

\* C19: DeleteList with selected_list = Some(L) removes the entry whose
\* List has the id of L (the first such entry, none if there is none) and
\* no other entry, the entries that remain keep their data and their
\* order, selected_list is None, Content was told List(None), and the
\* batch holds exactly one delete_list, for L.id; with selected_list = None
\* it changes nothing and returns no command.
C19_DeleteListById ==
    last.type = "DeleteList" =>
        IF IsSome(pre.selected_list)
        THEN LET id == Unwrap(pre.selected_list).id
                 gone == Entities(pre.nav_model) \ Entities(nav_model)
             IN  /\ gone \subseteq WithId(pre.nav_model, id)
                 /\ Cardinality(gone) = IF WithId(pre.nav_model, id) = {} THEN 0 ELSE 1
                 /\ \A e \in gone, f \in WithId(pre.nav_model, id) :
                       Pos(pre.nav_model, e) <= Pos(pre.nav_model, f)
                 /\ nav_model.order = SelectSeq(pre.nav_model.order, LAMBDA e : e \notin gone)
                 /\ \A e \in Entities(nav_model) :
                       /\ nav_model.data[e] = pre.nav_model.data[e]
                       /\ nav_model.text[e] = pre.nav_model.text[e]
                 /\ selected_list = None
                 /\ content_list = None
                 /\ OneDeleteList(commands, id)
        ELSE App = pre /\ commands = <<>>

\* C19 witness: with two entries and the second one selected, DeleteList
\* removed the second entry and kept the first.
C19_Witness ==
    /\ last.type = "DeleteList"
    /\ Len(pre.nav_model.order) = 2
    /\ pre.selected_list = Some(pre.nav_model.data[pre.nav_model.order[2]])
    /\ pre.nav_model.data[pre.nav_model.order[1]].id
          # pre.nav_model.data[pre.nav_model.order[2]].id
    /\ nav_model.order = <<pre.nav_model.order[1]>>
    /\ selected_list = None

Openers == {"OpenNewListDialog", "OpenRenameListDialog", "OpenDeleteListDialog", "Key"}
Closers == {"DialogCancel", "DialogComplete", "on_escape"}

\* one step of the dialog queue: a dialog is put behind those that wait, or
\* the dialog shown leaves and the next one is shown, or the text of the
\* dialog shown is edited, or the queue is left alone
FifoStep ==
    \/ dialog_pages' = dialog_pages
    \/ /\ last'.type \in Openers
       /\ Len(dialog_pages') = Len(dialog_pages) + 1
       /\ SubSeq(dialog_pages', 1, Len(dialog_pages)) = dialog_pages
    \/ /\ last'.type \in Closers
       /\ dialog_pages # <<>>
       /\ dialog_pages' = Tail(dialog_pages)
    \/ /\ last'.type = "DialogUpdate"
       /\ dialog_pages # <<>>
       /\ Len(dialog_pages') = Len(dialog_pages)
       /\ Tail(dialog_pages') = Tail(dialog_pages)
       /\ Head(dialog_pages').kind = Head(dialog_pages).kind

\* C22: the dialogs are served first in, first out: a dialog opened while
\* others are queued is placed behind them, the dialog in front stays in
\* front (its text may be edited) until DialogCancel, DialogComplete or the
\* escape key removes it, and then the dialog behind it is in front, so
\* the dialogs reach the front in the order in which they were opened.
C22_DialogsFifo == [][FifoStep]_vars

\* C22 witness: two different dialogs were queued and the one in front was
\* closed; the dialog opened second is now the one shown.
C22_Witness ==
    /\ last.type \in Closers
    /\ Len(pre.dialog_pages) = 2
    /\ pre.dialog_pages[1].kind # pre.dialog_pages[2].kind
    /\ dialog_pages = <<pre.dialog_pages[2]>>

\* C23 (as claimed): in every reachable state the label of every
\* navigation entry is the name of the List attached to it, also once the
\* UpdateList of a rename has been handled.
C23_LabelIsListName ==
    \A e \in Entities(nav_model) : nav_model.text[e] = nav_model.data[e].name

\* C24: a Key whose chord a binding matches has exactly the effect of the
\* Message of the bound Action dispatched directly, the same App value
\* after it and the same batch, whichever matching entry the table yields
\* first; a Key that no binding matches changes no state, schedules no
\* command and does not panic.  Checked on the Key handled last and on
\* every Key that could be handled next.
C24_KeyIsActionMessage ==
    /\ (last.type = "Key" /\ last.chord \in DOMAIN KeyBinds) =>
          /\ App = update(pre, ActionMessage(KeyBinds[last.chord])).app
          /\ commands = update(pre, ActionMessage(KeyBinds[last.chord])).cmds
    /\ (last.type = "Key" /\ last.chord \notin DOMAIN KeyBinds) =>
          /\ App = pre
          /\ commands = <<>>
          /\ ~panicked
    /\ \A chord \in Chords :
          LET matching == {e \in KeyBindTable : Matches(e.key_bind, chord)}
          IN  /\ matching = {} =>
                    update(App, [type |-> "Key", chord |-> chord]) = R(App, <<>>)
              /\ \A e \in matching :
                    update(App, ActionMessage(e.action)) \in KeyOutcomes(App, chord)
              /\ \A r \in KeyOutcomes(App, chord) :
                    \/ matching = {} /\ r = R(App, <<>>)
                    \/ \E e \in matching : r = update(App, ActionMessage(e.action))

\* C24 witness: the key bound to NewList was pressed while no dialog was
\* shown; the dialog is queued and the text input is focused, as
\* OpenNewListDialog does.
C24_Witness ==
    /\ last.type = "Key"
    /\ last.chord = "NewList"
    /\ pre.dialog_pages = <<>>
    /\ dialog_pages = <<NewItem("")>>
    /\ commands = <<FocusTextInput>>

\* the intents of Details that the controller accepts and drops
NoEffect == {"Delete", "Complete", "Favorite"}

\* C25: the Delete, Complete and Favorite intents of Details have no
\* effect in the controller: the App value (navigation model,
\* selected_list, dialog queue, context panel and the rest) is the one
\* before and the batch is empty, alone and between other intents; Rename
\* and PriorityActivate have exactly the effect of the Content message they
\* are re-dispatched as, so the batch holds what Content's answer asks for
\* and nothing when Content answers with nothing.
C25_DetailsIntents ==
    /\ (last.type = "DetailsMessage" /\ Len(last.intents) = 1) =>
          LET c == last.intents[1]
          IN  /\ c.cmd \in NoEffect => App = pre /\ commands = <<>>
              /\ c.cmd \in {"Rename", "PriorityActivate"} =>
                    R(App, commands) = update(pre, [type |-> "ContentMessage",
                                                   message |-> ViewMsg(c.answer)])
    /\ \A c \in NoEffect :
          /\ update(App, [type |-> "DetailsMessage", intents |-> <<[cmd |-> c]>>])
                = R(App, <<>>)
          /\ \A t \in Tasks :
                update(App, [type |-> "DetailsMessage",
                             intents |-> <<[cmd |-> "Update", task |-> t],
                                           [cmd |-> c],
                                           [cmd |-> "Update", task |-> t]>>])
                  = R(App, <<UpdateTask(t), UpdateTask(t)>>)
    /\ \A c \in {"Rename", "PriorityActivate"} :
          /\ update(App, [type |-> "DetailsMessage",
                          intents |-> <<[cmd |-> c, answer |-> <<>>]>>])
                = R(App, <<>>)
          /\ \A a \in ContentAnswers :
                update(App, [type |-> "DetailsMessage",
                             intents |-> <<[cmd |-> c, answer |-> a]>>])
                  = update(App, [type |-> "ContentMessage", message |-> ViewMsg(a)])

\* C25 witness: Details sent Complete while the task panel showed a task,
\* a list was selected and a dialog was queued; nothing changed and
\* nothing was scheduled.
C25_Witness ==
    /\ last.type = "DetailsMessage"
    /\ last.intents = <<[cmd |-> "Complete"]>>
    /\ show_context
    /\ context_page = "TaskDetails"
    /\ IsSome(details.task)
    /\ IsSome(selected_list)
    /\ dialog_pages # <<>>
    /\ App = pre
    /\ commands = <<>>

\* C26: after AppTheme(t) the theme of the configuration in memory is t
\* and the batch is the set_theme of t, when a handler exists and the
\* write succeeds, when a handler exists and the write fails, and when
\* there is no handler; SystemThemeModeChange returns the set_theme of the
\* theme configured and leaves the configuration as it is.  Checked on the
\* message handled last and, for the three cases, in every reachable state.
C26_AppTheme ==
    /\ last.type = "AppTheme" =>
          /\ config = [pre.config EXCEPT !.app_theme = last.app_theme]
          /\ commands = <<SetTheme(last.app_theme)>>
          /\ [App EXCEPT !.config = pre.config] = pre
    /\ last.type = "SystemThemeModeChange" =>
          /\ App = pre
          /\ commands = <<SetTheme(config.app_theme)>>
    /\ \A t \in AppThemes, handler \in BOOLEAN, saved \in BOOLEAN :
          LET app == [App EXCEPT !.config.handler = handler]
              r == update(app, [type |-> "AppTheme", app_theme |-> t, saved |-> saved])
          IN  /\ r.app = [app EXCEPT !.config.app_theme = t]
              /\ r.cmds = <<SetTheme(t)>>
              /\ r.cmds = update(r.app, Msg("SystemThemeModeChange")).cmds
              /\ update(r.app, Msg("SystemThemeModeChange")).app = r.app

\* C26 witness: with a handler, the write of another theme failed; the
\* theme is the one picked all the same and it is applied.
C26_Witness ==
    /\ last.type = "AppTheme"
    /\ ~last.saved
    /\ pre.config.handler
    /\ pre.config.app_theme # last.app_theme
    /\ config.app_theme = last.app_theme
    /\ commands = <<SetTheme(last.app_theme)>>

\* a call of update or of on_nav_select: the App value it starts in and
\* the Message (or the entity) it is given
Call(app, message) == [app |-> app, message |-> message]

\* the calls self.update(..) and self.on_nav_select(..) that update(app,
\* message) makes itself, each with the App value it is made in
Redispatch(app, message) ==
    CASE message.type = "Key" ->
            {Call(app, ActionMessage(e.action)) :
                e \in {x \in KeyBindTable : Matches(x.key_bind, message.chord)}}
      [] message.type = "DetailsMessage" ->
            {Call(DetailsCommands(app, SubSeq(message.intents, 1, i - 1)).app,
                  [type |-> "ContentMessage",
                   message |-> ViewMsg(message.intents[i].answer)]) :
                i \in {j \in 1..Len(message.intents) :
                          message.intents[j].cmd \in {"Rename", "PriorityActivate"}}}
      [] message.type = "ContentMessage" ->
            LET c == ContentUpdate(app.content_list, message.message)
                app1 == [app EXCEPT !.content_list = c.list]
            IN  {Call([ContentCommands(app1, SubSeq(c.intents, 1, i - 1)).app
                          EXCEPT !.details =
                              [ActivatePriority(@, c.intents[i].task.priority)
                                  EXCEPT !.task = Some(c.intents[i].task)]],
                      [type |-> "ToggleContextPage", page |-> "TaskDetails"]) :
                    i \in {j \in 1..Len(c.intents) : c.intents[j].cmd = "DisplayTask"}}
      [] message.type = "PopulateLists" ->
            LET m == create_nav_items(app.nav_model, message.lists)
                first == FirstEntity(m)
            IN  IF IsSome(first)
                THEN {Call([app EXCEPT !.nav_model = Activate(m, Unwrap(first))],
                           [type |-> "on_nav_select", entity |-> Unwrap(first)])}
                ELSE {}
      [] message.type = "AddList" ->
            LET m == create_nav_item(app.nav_model, message.list)
                entity == LastEntity(m)
            IN  IF IsSome(entity)
                THEN {Call([app EXCEPT !.selected_list = Some(message.list),
                                       !.nav_model = m],
                           [type |-> "on_nav_select", entity |-> Unwrap(entity)])}
                ELSE {}
      [] message.type = "on_nav_select" ->
            LET m == Activate(app.nav_model, message.entity)
                location_opt == Data(m, message.entity)
            IN  IF IsSome(location_opt)
                THEN {Call([app EXCEPT !.nav_model = m, !.selected_list = location_opt],
                           [type |-> "ContentMessage", message |-> ListMsg(location_opt)])}
                ELSE {}
      [] message.type = "DeleteList" ->
            IF IsSome(app.selected_list)
            THEN LET entity == FindById(app.nav_model, Unwrap(app.selected_list).id)
                 IN  {Call([app EXCEPT !.nav_model =
                                IF IsSome(entity) THEN Remove(@, Unwrap(entity)) ELSE @],
                           [type |-> "ContentMessage", message |-> ListMsg(None)])}
            ELSE {}
      [] message.type = "DialogComplete" ->
            IF /\ app.dialog_pages # <<>>
               /\ Head(app.dialog_pages).kind = "DeleteItem"
               /\ IsSome(app.selected_list)
            THEN {Call([app EXCEPT !.dialog_pages = Tail(@)], Msg("DeleteList"))}
            ELSE {}
      [] OTHER -> {}

\* the chains of nested calls that start with update(app, message): the
\* kinds of the Messages, outermost first, followed for at most `fuel`
\* levels below the first
RECURSIVE Chains(_, _, _)
Chains(app, message, fuel) ==
    LET calls == Redispatch(app, message)
    IN  IF calls = {} \/ fuel = 0 THEN {<<message.type>>}
        ELSE {<<message.type>> \o chain :
                chain \in UNION {Chains(c.app, c.message, fuel - 1) : c \in calls}}

\* every chain of nested calls from update(app, message) ends within
\* MaxChain calls and holds no kind of Message twice
ChainsEnd(app, message) ==
    \A chain \in Chains(app, message, MaxChain) :
        /\ Len(chain) <= MaxChain
        /\ \A i, j \in 1..Len(chain) : chain[i] = chain[j] => i = j

\* no future of the backend is in flight
Quiescent == pending = EmptyBag

\* the work that the futures in flight stand for: one step for each, and
\* one more for those whose answer makes the controller fetch the tasks of
\* a list (fetch_lists: PopulateLists, create_list: AddList)
Rank(bag) == BagCardinality(bag) + InFlight(bag, {"fetch_lists", "create_list"})

\* C27: the loop is closed and terminates.  Handling a Message ends after
\* a finite chain of nested calls of update in which no kind of Message
\* occurs twice (every Message that can be sent in a reachable state, and
\* the selection of every entry); and when the events of the user stop
\* and the backend answers every command, the loop comes to rest with no
\* command in flight and stays there, every answer of the backend leaving
\* less work in flight than there was.
C27_LoopTerminates ==
    /\ [](/\ \A message \in Messages(App) : ChainsEnd(App, message)
          /\ \A entity \in Entities(nav_model) :
                ChainsEnd(App, [type |-> "on_nav_select", entity |-> entity]))
    /\ [][BackendStep => Rank(pending') < Rank(pending)]_vars
    /\ ([]<><<ExternalStep>>_vars) \/ <>[]Quiescent

\* C27 witness: DialogComplete of a DeleteItem page called DeleteList,
\* which called Content, the delete_list it scheduled has been answered,
\* and nothing is in flight.
C27_Witness ==
    /\ last.type = "DialogComplete"
    /\ pre.dialog_pages # <<>>
    /\ Head(pre.dialog_pages).kind = "DeleteItem"
    /\ IsSome(pre.selected_list)
    /\ Chains(pre, last, MaxChain) = {<<"DialogComplete", "DeleteList", "ContentMessage">>}
    /\ commands = <<DeleteListCmd(Unwrap(pre.selected_list).id)>>
    /\ Quiescent

====
